---- MODULE Spec2Model ----
(***************************************************************************)
(* persistence.c: search for record multiplicative persistences.           *)
(*                                                                         *)
(* The model is the USE_OPENMP build: the iterations of the loop over      *)
(* `digits` (line 142) are handed to worker threads by the OpenMP runtime  *)
(* (schedule(dynamic)), each iteration enumerates its candidates           *)
(* sequentially, and the record `max` and the two output streams are       *)
(* shared.  A build without USE_OPENMP is the same program with one        *)
(* thread.                                                                 *)
(***************************************************************************)
EXTENDS Integers, Sequences, FiniteSets, TLC

(* ------------------------------------------------------------------ *)
(* Bounds of the model                                                  *)
(* ------------------------------------------------------------------ *)

\* Number of worker threads of the OpenMP team.
NumThreads == 2

\* Largest MAX_DIGITS (a compile-time parameter, line 24-26) of Spec.
MaxDigits == 3

\* MAX_DIGITS of SpecSerial.
SerialDigits == 7

\* Largest MAX_DIGITS of SpecProgress.
ProgressDigits == 102

\* SpecProgress takes MAX_DIGITS in ProgressDigits - ProgressSpan .. ProgressDigits.
ProgressSpan == 3

\* Largest argument handed to mul_digits / mpz_persistence in SpecEval.
MaxEvalIn == 2000

\* Largest MAX_DIGITS of SpecSingle.
SingleDigits == 7

(* ------------------------------------------------------------------ *)
(* Program constants                                                    *)
(* ------------------------------------------------------------------ *)

DIGIT_DIVISOR == 100

NUM_PREFIXES == 6

\* "Only list things with a persistence of more than 2."
InitialMax == 2

Threads == 1 .. NumThreads

\* The mutex is free.
NoThread == 0

VARIABLES
    MAX_DIGITS,     \* the compile-time parameter of the run
    digits_left,    \* unsigned digits_left[digit_bucket_count]
    max,            \* unsigned max
    max_held,       \* every value `max` has held (what a racy read can see)
    mtx,            \* pthread_mutex_t mtx: its holder, or NoThread
    unstarted,      \* iterations of the parallel loop not yet handed out
    w,              \* per thread: control point and the iteration's locals
    stdout,         \* characters written to stdout, in order
    stderr,         \* chunks written to stderr, one per fprintf
    eval_fn,        \* SpecEval: the function applied
    eval_in,        \* SpecEval: its argument
    eval_out,       \* SpecEval: its result
    evaluated       \* SpecSingle: the candidates evaluated so far, in order

vars == <<MAX_DIGITS, digits_left, max, max_held, mtx, unstarted, w,
          stdout, stderr, eval_fn, eval_in, eval_out, evaluated>>

progvars == <<MAX_DIGITS, digits_left, max, max_held, mtx, unstarted, w,
              stdout, stderr>>

evalvars == <<eval_fn, eval_in, eval_out, evaluated>>

(* ------------------------------------------------------------------ *)
(* Arithmetic helpers                                                   *)
(* ------------------------------------------------------------------ *)

RECURSIVE Pow(_, _)
\* mpz_ui_pow_ui(rop, base, exp)
Pow(base, exp) == IF exp = 0 THEN 1 ELSE base * Pow(base, exp - 1)

RECURSIVE Repeat(_, _)
\* for (i = 0; i < n; i++) printf(c): the characters of one run
Repeat(c, n) == IF n = 0 THEN <<>> ELSE <<c>> \o Repeat(c, n - 1)

DigitChar == <<"0", "1", "2", "3", "4", "5", "6", "7", "8", "9">>

RECURSIVE FmtU(_)
\* printf("%u", n)
FmtU(n) == IF n < 10 THEN <<DigitChar[n + 1]>>
           ELSE FmtU(n \div 10) \o <<DigitChar[(n % 10) + 1]>>

\* printf("%02u", n): at least two digits, padded with a zero
Fmt02u(n) == IF n < 10 THEN <<"0">> \o FmtU(n) ELSE FmtU(n)

(* ------------------------------------------------------------------ *)
(* mul_digits and mpz_persistence                                       *)
(* ------------------------------------------------------------------ *)

ZeroHist == [d \in 0 .. 9 |-> 0]

RECURSIVE DigitLoop(_, _)
\* The while loop of mul_digits: divide by 10, count the remainder, leave
\* at once on a 0 digit.
DigitLoop(in, hist) ==
    IF in > 0
    THEN LET r == in % 10
             q == in \div 10
         IN  IF r = 0
             THEN [zero |-> TRUE, hist |-> hist]
             ELSE DigitLoop(q, [hist EXCEPT ![r] = @ + 1])
    ELSE [zero |-> FALSE, hist |-> hist]

\* hist[2] += (hist[4] * 2) + hist[6] + (hist[8] * 3)
Regroup2(hist) == hist[2] + (hist[4] * 2) + hist[6] + (hist[8] * 3)

\* hist[3] += hist[6] + (hist[9] * 2)
Regroup3(hist) == hist[3] + hist[6] + (hist[9] * 2)

\* The product built from the regrouped histogram.
HistProduct(hist) ==
    LET out2 == Pow(2, Regroup2(hist))
        h3   == Regroup3(hist)
        out3 == IF h3 # 0 THEN out2 * Pow(3, h3) ELSE out2
        out5 == IF hist[5] # 0 THEN out3 * Pow(5, hist[5]) ELSE out3
        out7 == IF hist[7] # 0 THEN out5 * Pow(7, hist[7]) ELSE out5
    IN  out7

\* static void mul_digits(mpz_t out, mpz_t in): the value left in out
\* (s is the state in which the while loop ends, taken once.)
mul_digits(in) ==
    CHOOSE out \in {IF s.zero THEN 0 ELSE HistProduct(s.hist)
                        : s \in {DigitLoop(in, ZeroHist)}} : TRUE

\* The loop condition of mpz_persistence: mpz_cmp_ui(in, 10) > 0
PersistenceContinues(in) == in > 10

RECURSIVE PersistenceLoop(_, _)
\* while (...) { mul_digits(in, in); count++; }: `out` is the value that
\* mul_digits leaves in `in`, taken once per round.
PersistenceLoop(in, count) ==
    IF PersistenceContinues(in)
    THEN CHOOSE c \in {PersistenceLoop(out, count + 1) : out \in {mul_digits(in)}} : TRUE
    ELSE count

\* static unsigned mpz_persistence(mpz_t in)
mpz_persistence(in) == PersistenceLoop(in, 0)

(* ------------------------------------------------------------------ *)
(* The prefixes                                                         *)
(* ------------------------------------------------------------------ *)

\* The table with the text "2" listed twice.
PrefixTableRepeated ==
    << [str |-> <<"2", "6">>, digits |-> 2, prod |-> 12],
       [str |-> <<"2">>,      digits |-> 1, prod |-> 2],
       [str |-> <<"3">>,      digits |-> 1, prod |-> 3],
       [str |-> <<"2">>,      digits |-> 1, prod |-> 2],
       [str |-> <<"6">>,      digits |-> 1, prod |-> 6],
       [str |-> <<>>,         digits |-> 0, prod |-> 1] >>

PrefixTable ==
    << [str |-> <<"2", "6">>, digits |-> 2, prod |-> 12],
       [str |-> <<"2">>,      digits |-> 1, prod |-> 2],
       [str |-> <<"3">>,      digits |-> 1, prod |-> 3],
       [str |-> <<"4">>,      digits |-> 1, prod |-> 4],
       [str |-> <<"6">>,      digits |-> 1, prod |-> 6],
       [str |-> <<>>,         digits |-> 0, prod |-> 1] >>

\* struct prefix prefixes[NUM_PREFIXES], indexed from 0 as in the source
prefixes == [p \in 0 .. NUM_PREFIXES - 1 |-> PrefixTable[p + 1]]

(* ------------------------------------------------------------------ *)
(* The loop nest of one iteration `digits`                              *)
(*                                                                      *)
(* A position is (p, fam, outer, num9s): the prefix index, the family   *)
(* ("A": the loop with 5s of lines 163-196, "B": the loop of lines      *)
(* 200-233), the outer counter (num79s or num89s) and num9s.            *)
(* p = NUM_PREFIXES is the end of the loop over the prefixes.           *)
(* ------------------------------------------------------------------ *)

EndPos == [p |-> NUM_PREFIXES, fam |-> "-", outer |-> 0, num9s |-> 0]

\* The body of the prefix loop without the block of lines 152-197.
FirstOfPrefixNoFives(digits, p) ==
    [p |-> p, fam |-> "B", outer |-> 0, num9s |-> 0]

\* Entering the body of the prefix loop for prefix p at line 152: the
\* first candidate is of family A when the product is odd and the loop of
\* line 163 runs at least once, else of family B (whose loops always run).
FirstOfPrefix(digits, p) ==
    IF prefixes[p].prod % 2 = 1 /\ 0 < digits - prefixes[p].digits
    THEN [p |-> p, fam |-> "A", outer |-> 0, num9s |-> 0]
    ELSE [p |-> p, fam |-> "B", outer |-> 0, num9s |-> 0]

RECURSIVE EnterPrefix(_, _)
\* for (p ...; p < NUM_PREFIXES; ...) { if (digits < prefix->digits) continue;
EnterPrefix(digits, p) ==
    IF p >= NUM_PREFIXES THEN EndPos
    ELSE IF digits < prefixes[p].digits THEN EnterPrefix(digits, p + 1)
    ELSE FirstOfPrefix(digits, p)

\* The loop of line 200 with a strict test (num89s < num789s).
NextPosStrict(digits, pos) ==
    LET rest == digits - prefixes[pos.p].digits
    IN  IF pos.num9s + 1 <= pos.outer
        THEN [pos EXCEPT !.num9s = @ + 1]
        ELSE IF pos.fam = "A"
        THEN IF pos.outer + 1 < rest
             THEN [pos EXCEPT !.outer = @ + 1, !.num9s = 0]
             ELSE [pos EXCEPT !.fam = "B", !.outer = 0, !.num9s = 0]
        ELSE IF pos.outer + 1 < rest
             THEN [pos EXCEPT !.outer = @ + 1, !.num9s = 0]
             ELSE EnterPrefix(digits, pos.p + 1)

\* The position after pos: num9s++, then the enclosing loops' tests.
NextPos(digits, pos) ==
    LET rest == digits - prefixes[pos.p].digits
    IN  IF pos.num9s + 1 <= pos.outer
        THEN [pos EXCEPT !.num9s = @ + 1]
        ELSE IF pos.fam = "A"
        THEN IF pos.outer + 1 < rest
             THEN [pos EXCEPT !.outer = @ + 1, !.num9s = 0]
             ELSE [pos EXCEPT !.fam = "B", !.outer = 0, !.num9s = 0]
        ELSE IF pos.outer + 1 <= rest
             THEN [pos EXCEPT !.outer = @ + 1, !.num9s = 0]
             ELSE EnterPrefix(digits, pos.p + 1)

\* num5s, num7s, num8s, num9s of the candidate at a position
Counts(digits, pos) ==
    LET rest == digits - prefixes[pos.p].digits
    IN  IF pos.fam = "A"
        THEN [num5s |-> rest - pos.outer, num7s |-> pos.outer - pos.num9s,
              num8s |-> 0, num9s |-> pos.num9s]
        ELSE [num5s |-> 0, num7s |-> rest - pos.outer,
              num8s |-> pos.outer - pos.num9s, num9s |-> pos.num9s]

\* The first step without the mpz_mul_ui by prefix->prod.
FirstStepNoPrefix(digits, pos) ==
    LET c == Counts(digits, pos)
    IN  IF pos.fam = "A"
        THEN Pow(5, c.num5s) * Pow(7, c.num7s) * Pow(9, c.num9s)
        ELSE Pow(7, c.num7s) * Pow(8, c.num8s) * Pow(9, c.num9s)

\* "Compute the first step": the value left in num
FirstStep(digits, pos) ==
    LET c == Counts(digits, pos)
    IN  IF pos.fam = "A"
        THEN Pow(5, c.num5s) * Pow(7, c.num7s) * Pow(9, c.num9s)
                 * prefixes[pos.p].prod
        ELSE Pow(7, c.num7s) * Pow(8, c.num8s) * Pow(9, c.num9s)
                 * prefixes[pos.p].prod

\* unsigned persistence = 1 + mpz_persistence(num)
CandidatePersistence(digits, pos) == 1 + mpz_persistence(FirstStep(digits, pos))

\* The characters the three printf loops write after the prefix.
RunChars(digits, pos) ==
    LET c == Counts(digits, pos)
    IN  IF pos.fam = "A"
        THEN Repeat("5", c.num5s) \o Repeat("7", c.num7s) \o Repeat("9", c.num9s)
        ELSE Repeat("7", c.num7s) \o Repeat("8", c.num8s) \o Repeat("9", c.num9s)

(* ------------------------------------------------------------------ *)
(* Setup (lines 123-136)                                                *)
(* ------------------------------------------------------------------ *)

\* const unsigned digit_bucket_count = MAX_DIGITS / DIGIT_DIVISOR + 1
digit_bucket_count(M) == M \div DIGIT_DIVISOR + 1

\* Every bucket filled as a whole one, the short last bucket included.
BucketFillWhole(M, i) == DIGIT_DIVISOR

\* The loop of lines 126-131.
BucketFill(M, i) ==
    IF (i + 1) * DIGIT_DIVISOR > M THEN M - i * DIGIT_DIVISOR ELSE DIGIT_DIVISOR

\* The setup without line 133.
DigitsLeftInitNoSetup(M) ==
    [i \in 0 .. digit_bucket_count(M) - 1 |-> BucketFill(M, i)]

\* digits_left[] after line 133 (digits_left[0] -= 1).  The counters are
\* unsigned; a value below 0 stands for the wrapped value.
DigitsLeftInit(M) ==
    [i \in 0 .. digit_bucket_count(M) - 1 |->
        IF i = 0 THEN BucketFill(M, i) - 1 ELSE BucketFill(M, i)]

\* unsigned digits_bucket = (digits - 1) / DIGIT_DIVISOR
digits_bucket(digits) == (digits - 1) \div DIGIT_DIVISOR

\* unsigned bucket_digits of lines 244-246
bucket_digits(b, M) ==
    IF (b + 1) * DIGIT_DIVISOR > M THEN M ELSE (b + 1) * DIGIT_DIVISOR

\* fprintf(stderr, "Finished searching at %u digits\n", bucket_digits)
ProgressLine(n) == <<"Finished searching at ">> \o FmtU(n) \o <<" digits", "\n">>

(* ------------------------------------------------------------------ *)
(* Threads                                                              *)
(* ------------------------------------------------------------------ *)

\* A thread that holds no iteration.
Idle == [pc |-> "idle", digits |-> 0, pos |-> EndPos, persistence |-> 0, i |-> 0]

\* Control moves to the next candidate of the iteration, or past the loop
\* over the prefixes to line 236.
Advance(l) ==
    LET np == NextPos(l.digits, l.pos)
    IN  [l EXCEPT !.pc = IF np = EndPos THEN "bucket" ELSE "eval",
                  !.pos = np, !.persistence = 0, !.i = 0]

ProgInit(M) ==
    /\ MAX_DIGITS = M
    /\ digits_left = DigitsLeftInit(M)
    /\ max = InitialMax
    /\ max_held = {InitialMax}
    /\ mtx = NoThread
    /\ unstarted = 2 .. M
    /\ w = [t \in Threads |-> Idle]
    /\ stdout = <<>>
    /\ stderr = <<>>

EvalIdle ==
    /\ eval_fn = "none"
    /\ eval_in = 0
    /\ eval_out = 0
    /\ evaluated = <<>>

Init ==
    /\ \E M \in 2 .. MaxDigits : ProgInit(M)
    /\ EvalIdle

\* schedule(dynamic): a thread without an iteration is handed one that has
\* not been started; OpenMP leaves open which.
Claim(t) ==
    /\ w[t].pc = "idle"
    /\ \E d \in unstarted :
          /\ unstarted' = unstarted \ {d}
          /\ w' = [w EXCEPT ![t] =
                     [pc |-> "eval", digits |-> d, pos |-> EnterPrefix(d, 0),
                      persistence |-> 0, i |-> 0]]
    /\ UNCHANGED <<MAX_DIGITS, digits_left, max, max_held, mtx, stdout, stderr>>
    /\ UNCHANGED evalvars

\* No iteration is left: the thread leaves the parallel loop.
Leave(t) ==
    /\ w[t].pc = "idle"
    /\ unstarted = {}
    /\ w' = [w EXCEPT ![t].pc = "done"]
    /\ UNCHANGED <<MAX_DIGITS, digits_left, max, max_held, mtx, unstarted,
                   stdout, stderr>>
    /\ UNCHANGED evalvars

\* What the read of `max` outside the mutex (lines 177, 214) can return:
\* the read races with the write of lines 190/227, so it sees the current
\* value or one `max` held before.
RacyMax == max_held

\* Lines 168-177 / 205-214: compute the first step and its persistence,
\* compare with `max` without the mutex.
Evaluate(t) ==
    /\ w[t].pc = "eval"
    /\ LET persistence == CandidatePersistence(w[t].digits, w[t].pos)
       IN  \E seen \in RacyMax :
              IF persistence > seen
              THEN w' = [w EXCEPT ![t].pc = "lock", ![t].persistence = persistence]
              ELSE w' = [w EXCEPT ![t] = Advance(w[t])]
    /\ UNCHANGED <<MAX_DIGITS, digits_left, max, max_held, mtx, unstarted,
                   stdout, stderr>>
    /\ UNCHANGED evalvars

\* A lock that does not exclude: it is taken whoever holds it.
LockNoExclusion(t) ==
    /\ w[t].pc = "lock"
    /\ mtx' = t
    /\ w' = [w EXCEPT ![t].pc = "recheck"]
    /\ UNCHANGED <<MAX_DIGITS, digits_left, max, max_held, unstarted, stdout, stderr>>
    /\ UNCHANGED evalvars

\* pthread_mutex_lock(&mtx) of lines 179 / 216
Lock(t) ==
    /\ w[t].pc = "lock"
    /\ mtx = NoThread
    /\ mtx' = t
    /\ w' = [w EXCEPT ![t].pc = "recheck"]
    /\ UNCHANGED <<MAX_DIGITS, digits_left, max, max_held, unstarted, stdout, stderr>>
    /\ UNCHANGED evalvars

\* Recheck without its test: the record is printed on the racy comparison alone.
RecheckSkipped(t) ==
    /\ w[t].pc = "recheck"
    /\ w' = [w EXCEPT ![t].pc = "print_head"]
    /\ UNCHANGED <<MAX_DIGITS, digits_left, max, max_held, mtx, unstarted,
                   stdout, stderr>>
    /\ UNCHANGED evalvars

\* Recheck against the value read before the mutex was taken.
RecheckStale(t) ==
    /\ w[t].pc = "recheck"
    /\ \E seen \in max_held :
          w' = [w EXCEPT ![t].pc = IF w[t].persistence <= seen
                                    THEN "unlock_continue" ELSE "print_head"]
    /\ UNCHANGED <<MAX_DIGITS, digits_left, max, max_held, mtx, unstarted,
                   stdout, stderr>>
    /\ UNCHANGED evalvars

\* if (persistence <= max) of lines 180 / 217
Recheck(t) ==
    /\ w[t].pc = "recheck"
    /\ w' = [w EXCEPT ![t].pc = IF w[t].persistence <= max
                                 THEN "unlock_continue" ELSE "print_head"]
    /\ UNCHANGED <<MAX_DIGITS, digits_left, max, max_held, mtx, unstarted,
                   stdout, stderr>>
    /\ UNCHANGED evalvars

\* The continue of lines 182 / 219 without the unlock before it.
UnlockContinueHeld(t) ==
    /\ w[t].pc = "unlock_continue"
    /\ w' = [w EXCEPT ![t] = Advance(w[t])]
    /\ UNCHANGED <<MAX_DIGITS, digits_left, max, max_held, mtx, unstarted,
                   stdout, stderr>>
    /\ UNCHANGED evalvars

\* pthread_mutex_unlock(&mtx); continue;  (lines 181-182 / 218-219)
UnlockContinue(t) ==
    /\ w[t].pc = "unlock_continue"
    /\ mtx' = NoThread
    /\ w' = [w EXCEPT ![t] = Advance(w[t])]
    /\ UNCHANGED <<MAX_DIGITS, digits_left, max, max_held, unstarted, stdout, stderr>>
    /\ UNCHANGED evalvars

\* printf("%02u:  %s", persistence, prefix->str)  (lines 185 / 222)
PrintHead(t) ==
    /\ w[t].pc = "print_head"
    /\ stdout' = stdout \o Fmt02u(w[t].persistence) \o <<":", " ", " ">>
                        \o prefixes[w[t].pos.p].str
    /\ w' = [w EXCEPT ![t].pc = "print_digits", ![t].i = 0]
    /\ UNCHANGED <<MAX_DIGITS, digits_left, max, max_held, mtx, unstarted, stderr>>
    /\ UNCHANGED evalvars

\* One printf of the loops of lines 186-188 / 223-225.
PrintDigit(t) ==
    /\ w[t].pc = "print_digits"
    /\ LET chars == RunChars(w[t].digits, w[t].pos)
       IN  /\ w[t].i < Len(chars)
           /\ stdout' = Append(stdout, chars[w[t].i + 1])
    /\ w' = [w EXCEPT ![t].i = @ + 1]
    /\ UNCHANGED <<MAX_DIGITS, digits_left, max, max_held, mtx, unstarted, stderr>>
    /\ UNCHANGED evalvars

\* printf("\n")  (lines 189 / 226)
PrintNewline(t) ==
    /\ w[t].pc = "print_digits"
    /\ w[t].i = Len(RunChars(w[t].digits, w[t].pos))
    /\ stdout' = Append(stdout, "\n")
    /\ w' = [w EXCEPT ![t].pc = "set_max", ![t].i = 0]
    /\ UNCHANGED <<MAX_DIGITS, digits_left, max, max_held, mtx, unstarted, stderr>>
    /\ UNCHANGED evalvars

\* The assignment to max left out.
SetMaxForgotten(t) ==
    /\ w[t].pc = "set_max"
    /\ w' = [w EXCEPT ![t].pc = "unlock"]
    /\ UNCHANGED <<MAX_DIGITS, digits_left, max, max_held, mtx, unstarted,
                   stdout, stderr>>
    /\ UNCHANGED evalvars

\* max = persistence  (lines 190 / 227)
SetMax(t) ==
    /\ w[t].pc = "set_max"
    /\ max' = w[t].persistence
    /\ max_held' = max_held \cup {w[t].persistence}
    /\ w' = [w EXCEPT ![t].pc = "unlock"]
    /\ UNCHANGED <<MAX_DIGITS, digits_left, mtx, unstarted, stdout, stderr>>
    /\ UNCHANGED evalvars

\* pthread_mutex_unlock(&mtx) of lines 192 / 229, then the next candidate
Unlock(t) ==
    /\ w[t].pc = "unlock"
    /\ mtx' = NoThread
    /\ w' = [w EXCEPT ![t] = Advance(w[t])]
    /\ UNCHANGED <<MAX_DIGITS, digits_left, max, max_held, unstarted, stdout, stderr>>
    /\ UNCHANGED evalvars

\* The decrement followed by the report whatever value it returns.
BucketAlwaysReports(t) ==
    /\ w[t].pc = "bucket"
    /\ LET b == digits_bucket(w[t].digits)
       IN  /\ digits_left' = [digits_left EXCEPT ![b] = @ - 1]
           /\ w' = [w EXCEPT ![t].pc = "progress_lock"]
    /\ UNCHANGED <<MAX_DIGITS, max, max_held, mtx, unstarted, stdout, stderr>>
    /\ UNCHANGED evalvars

\* Lines 239-240: __sync_sub_and_fetch(&digits_left[digits_bucket], 1) == 0
Bucket(t) ==
    /\ w[t].pc = "bucket"
    /\ LET b == digits_bucket(w[t].digits)
       IN  /\ digits_left' = [digits_left EXCEPT ![b] = @ - 1]
           /\ w' = [w EXCEPT ![t] =
                      IF digits_left[b] - 1 = 0
                      THEN [w[t] EXCEPT !.pc = "progress_lock"]
                      ELSE Idle]
    /\ UNCHANGED <<MAX_DIGITS, max, max_held, mtx, unstarted, stdout, stderr>>
    /\ UNCHANGED evalvars

\* pthread_mutex_lock(&mtx) of line 242
ProgressLock(t) ==
    /\ w[t].pc = "progress_lock"
    /\ mtx = NoThread
    /\ mtx' = t
    /\ w' = [w EXCEPT ![t].pc = "progress_print"]
    /\ UNCHANGED <<MAX_DIGITS, digits_left, max, max_held, unstarted, stdout, stderr>>
    /\ UNCHANGED evalvars

\* Lines 244-249: the progress line, written and flushed
ProgressPrint(t) ==
    /\ w[t].pc = "progress_print"
    /\ stderr' = Append(stderr,
                    ProgressLine(bucket_digits(digits_bucket(w[t].digits), MAX_DIGITS)))
    /\ w' = [w EXCEPT ![t].pc = "progress_unlock"]
    /\ UNCHANGED <<MAX_DIGITS, digits_left, max, max_held, mtx, unstarted, stdout>>
    /\ UNCHANGED evalvars

\* pthread_mutex_unlock(&mtx) of line 251; the iteration ends
ProgressUnlock(t) ==
    /\ w[t].pc = "progress_unlock"
    /\ mtx' = NoThread
    /\ w' = [w EXCEPT ![t] = Idle]
    /\ UNCHANGED <<MAX_DIGITS, digits_left, max, max_held, unstarted, stdout, stderr>>
    /\ UNCHANGED evalvars

\* One step of thread t.
ThreadStep(t) ==
    \/ Claim(t)
    \/ Leave(t)
    \/ Evaluate(t)
    \/ Lock(t)
    \/ Recheck(t)
    \/ UnlockContinue(t)
    \/ PrintHead(t)
    \/ PrintDigit(t)
    \/ PrintNewline(t)
    \/ SetMax(t)
    \/ Unlock(t)
    \/ Bucket(t)
    \/ ProgressLock(t)
    \/ ProgressPrint(t)
    \/ ProgressUnlock(t)

Next == \E t \in Threads : ThreadStep(t)

\* The program with MAX_DIGITS in 2 .. MaxDigits and NumThreads threads.
Spec == Init /\ [][Next]_vars

\* The program under fair scheduling: a thread that can take a step is not
\* left waiting forever.  Nothing is assumed about who gets the mutex when
\* several threads wait for it.
SpecFair == Spec /\ \A t \in Threads : WF_vars(ThreadStep(t))

(* ------------------------------------------------------------------ *)
(* SpecSerial: MAX_DIGITS = SerialDigits, the iterations run one after  *)
(* another in whatever order the runtime hands them out (the runs of a  *)
(* larger team in which the iterations do not overlap in time).         *)
(* ------------------------------------------------------------------ *)

InitSerial ==
    /\ ProgInit(SerialDigits)
    /\ EvalIdle

NextSerial == ThreadStep(1)

SpecSerial == InitSerial /\ [][NextSerial]_vars

(* ------------------------------------------------------------------ *)
(* SpecProgress: the progress protocol (lines 123-133 and 239-253) for  *)
(* MAX_DIGITS around DIGIT_DIVISOR.  The candidates of an iteration of   *)
(* a hundred digits are beyond enumeration here, so the enumeration of   *)
(* an iteration (lines 143-237), which reads and writes neither          *)
(* digits_left nor stderr and leaves the mutex free, is taken as one     *)
(* step; the iterations are handed out in increasing order.              *)
(* ------------------------------------------------------------------ *)

InitProgress ==
    /\ \E M \in ProgressDigits - ProgressSpan .. ProgressDigits : ProgInit(M)
    /\ EvalIdle

\* The loop of line 142 run downwards: the highest iteration first.
ClaimDownwards(t) ==
    /\ w[t].pc = "idle"
    /\ unstarted # {}
    /\ LET d == CHOOSE x \in unstarted : \A y \in unstarted : x >= y
       IN  /\ unstarted' = unstarted \ {d}
           /\ w' = [w EXCEPT ![t] =
                      [pc |-> "eval", digits |-> d, pos |-> EnterPrefix(d, 0),
                       persistence |-> 0, i |-> 0]]
    /\ UNCHANGED <<MAX_DIGITS, digits_left, max, max_held, mtx, stdout, stderr>>
    /\ UNCHANGED evalvars

\* schedule(dynamic) as the runtime usually does it: the thread is handed
\* the lowest iteration not yet started.
ClaimInOrder(t) ==
    /\ w[t].pc = "idle"
    /\ unstarted # {}
    /\ LET d == CHOOSE x \in unstarted : \A y \in unstarted : x <= y
       IN  /\ unstarted' = unstarted \ {d}
           /\ w' = [w EXCEPT ![t] =
                      [pc |-> "eval", digits |-> d, pos |-> EnterPrefix(d, 0),
                       persistence |-> 0, i |-> 0]]
    /\ UNCHANGED <<MAX_DIGITS, digits_left, max, max_held, mtx, stdout, stderr>>
    /\ UNCHANGED evalvars

\* Lines 143-237 of one iteration, up to the decrement of line 240.
EnumerateOpaque(t) ==
    /\ w[t].pc = "eval"
    /\ w' = [w EXCEPT ![t].pc = "bucket", ![t].pos = EndPos]
    /\ UNCHANGED <<MAX_DIGITS, digits_left, max, max_held, mtx, unstarted,
                   stdout, stderr>>
    /\ UNCHANGED evalvars

NextProgress ==
    \E t \in Threads :
        \/ ClaimInOrder(t)
        \/ Leave(t)
        \/ EnumerateOpaque(t)
        \/ Bucket(t)
        \/ ProgressLock(t)
        \/ ProgressPrint(t)
        \/ ProgressUnlock(t)

SpecProgress == InitProgress /\ [][NextProgress]_vars

(* ------------------------------------------------------------------ *)
(* SpecEval: mul_digits and mpz_persistence applied to an argument.     *)
(* ------------------------------------------------------------------ *)

InitEval ==
    /\ ProgInit(2)
    /\ eval_fn = "none"
    /\ eval_in \in 0 .. MaxEvalIn
    /\ eval_out = 0
    /\ evaluated = <<>>

CallMulDigits ==
    /\ eval_fn = "none"
    /\ eval_fn' = "mul_digits"
    /\ eval_out' = mul_digits(eval_in)
    /\ UNCHANGED <<eval_in, evaluated>>
    /\ UNCHANGED progvars

CallPersistence ==
    /\ eval_fn = "none"
    /\ eval_fn' = "mpz_persistence"
    /\ eval_out' = mpz_persistence(eval_in)
    /\ UNCHANGED <<eval_in, evaluated>>
    /\ UNCHANGED progvars

NextEval == CallMulDigits \/ CallPersistence

SpecEval == InitEval /\ [][NextEval]_vars

(* ------------------------------------------------------------------ *)
(* SpecSingle: the build without USE_OPENMP.  One thread runs the loop  *)
(* of line 142 from digits = 2 upwards; there is no mutex and no        *)
(* re-check, so the evaluation of a candidate together with the printing *)
(* of its record line and the write of max (lines 168-190 / 205-227) is  *)
(* one step.  `evaluated` records every candidate in the order in which  *)
(* it is evaluated: its counters, the value handed to mpz_persistence,   *)
(* the characters the printfs of lines 185-188 / 222-225 write for it,   *)
(* the persistence computed and whether it was taken as a record.        *)
(* ------------------------------------------------------------------ *)

\* The thread that runs the build without USE_OPENMP.
Main == 1

InitSingle ==
    /\ \E M \in 2 .. SingleDigits : ProgInit(M)
    /\ EvalIdle

\* The candidate at a position as the loop body sees it.
Candidate(digits, pos, record) ==
    LET c == Counts(digits, pos)
    IN  [digits |-> digits, p |-> pos.p,
         num5s |-> c.num5s, num7s |-> c.num7s, num8s |-> c.num8s,
         num9s |-> c.num9s,
         num |-> FirstStep(digits, pos),
         str |-> prefixes[pos.p].str \o RunChars(digits, pos),
         persistence |-> CandidatePersistence(digits, pos),
         record |-> record]

\* for (unsigned digits = 2; digits <= MAX_DIGITS; digits++): the next
\* iteration is entered.
SingleNextDigits == ClaimInOrder(Main)

\* The loop has ended: return 0.
SingleReturn == Leave(Main)

\* Lines 168-194 / 205-231 without the USE_OPENMP parts: one candidate.
SingleCandidate ==
    /\ w[Main].pc = "eval"
    /\ LET l == w[Main]
           persistence == CandidatePersistence(l.digits, l.pos)
       IN  /\ IF persistence > max
              THEN /\ stdout' = stdout \o Fmt02u(persistence) \o <<":", " ", " ">>
                                       \o prefixes[l.pos.p].str
                                       \o RunChars(l.digits, l.pos) \o <<"\n">>
                   /\ max' = persistence
                   /\ max_held' = max_held \cup {persistence}
              ELSE UNCHANGED <<stdout, max, max_held>>
           /\ evaluated' = Append(evaluated,
                                  Candidate(l.digits, l.pos, persistence > max))
           /\ w' = [w EXCEPT ![Main] = Advance(l)]
    /\ UNCHANGED <<MAX_DIGITS, digits_left, mtx, unstarted, stderr>>
    /\ UNCHANGED <<eval_fn, eval_in, eval_out>>

\* Lines 239-253 without the USE_OPENMP parts.
SingleBucket ==
    /\ w[Main].pc = "bucket"
    /\ LET b == digits_bucket(w[Main].digits)
       IN  /\ digits_left' = [digits_left EXCEPT ![b] = @ - 1]
           /\ stderr' = IF digits_left[b] - 1 = 0
                        THEN Append(stderr, ProgressLine(bucket_digits(b, MAX_DIGITS)))
                        ELSE stderr
    /\ w' = [w EXCEPT ![Main] = Idle]
    /\ UNCHANGED <<MAX_DIGITS, max, max_held, mtx, unstarted, stdout>>
    /\ UNCHANGED evalvars

NextSingle ==
    \/ SingleNextDigits
    \/ SingleCandidate
    \/ SingleBucket
    \/ SingleReturn

SpecSingle == InitSingle /\ [][NextSingle]_vars

(* ------------------------------------------------------------------ *)
(* Reading the output back                                              *)
(* ------------------------------------------------------------------ *)

RECURSIVE SplitLines(_, _, _, _)
\* The lines of a character stream: each run of characters ended by "\n",
\* and last the characters after the final "\n" (empty when there are none).
SplitLines(s, i, cur, acc) ==
    IF i > Len(s) THEN [complete |-> acc, partial |-> cur]
    ELSE IF s[i] = "\n" THEN SplitLines(s, i + 1, <<>>, Append(acc, cur))
    ELSE SplitLines(s, i + 1, Append(cur, s[i]), acc)

\* The complete lines of stdout.
RecordLines == SplitLines(stdout, 1, <<>>, <<>>).complete

\* The line being written, if one is.
OpenLine == SplitLines(stdout, 1, <<>>, <<>>).partial

\* The complete lines followed by the open one.
StartedLines ==
    LET s == SplitLines(stdout, 1, <<>>, <<>>)
    IN  IF s.partial = <<>> THEN s.complete ELSE Append(s.complete, s.partial)

IsDigit(c) == \E d \in 1 .. 10 : DigitChar[d] = c

DigitVal(c) == (CHOOSE d \in 1 .. 10 : DigitChar[d] = c) - 1

RECURSIVE ParseU(_)
\* The number a string of decimal digits denotes.
ParseU(s) == IF s = <<>> THEN 0
             ELSE 10 * ParseU(SubSeq(s, 1, Len(s) - 1)) + DigitVal(s[Len(s)])

\* The place of the ':' of a line, 0 when it has none.
ColonAt(line) ==
    IF \E k \in 1 .. Len(line) : line[k] = ":"
    THEN CHOOSE k \in 1 .. Len(line) :
            line[k] = ":" /\ \A j \in 1 .. k - 1 : line[j] # ":"
    ELSE 0

\* A line "NN:  S...": at least two digits, a colon, two spaces, digits.
WellFormed(line) ==
    LET k == ColonAt(line)
    IN  /\ k >= 3
        /\ \A j \in 1 .. k - 1 : IsDigit(line[j])
        /\ Len(line) >= k + 2
        /\ line[k + 1] = " "
        /\ line[k + 2] = " "
        /\ \A j \in k + 3 .. Len(line) : IsDigit(line[j])

\* NN of a well-formed line
LinePersistence(line) == ParseU(SubSeq(line, 1, ColonAt(line) - 1))

\* S of a well-formed line, as its digit characters
LineDigits(line) == SubSeq(line, ColonAt(line) + 3, Len(line))

\* The threads between the re-check and the write of max.
Printing(t) == w[t].pc \in {"print_head", "print_digits", "set_max"}

(* ------------------------------------------------------------------ *)
(* C1                                                                   *)
(* ------------------------------------------------------------------ *)

\* C1: the persistences of the lines printed on stdout are strictly
\* increasing in the order printed (so no two lines carry the same
\* persistence), and a thread prints a line only while its computed
\* persistence strictly exceeds max.
C1_StrictlyIncreasing ==
    LET lines == StartedLines
    IN  /\ \A i \in 1 .. Len(lines) : WellFormed(lines[i])
        /\ LET pers == [i \in 1 .. Len(lines) |-> LinePersistence(lines[i])]
            IN  \A i, j \in 1 .. Len(lines) : i < j => pers[i] < pers[j]
        /\ \A t \in Threads : Printing(t) => w[t].persistence > max

\* Two record lines are out and a thread that passed the racy comparison
\* has failed the re-check under the mutex.
C1_Witness ==
    /\ Len(RecordLines) >= 2
    /\ \E t \in Threads : w[t].pc = "unlock_continue" /\ w[t].persistence <= max

(* ------------------------------------------------------------------ *)
(* The mathematical definitions the claims are measured against         *)
(* ------------------------------------------------------------------ *)

RECURSIVE TrueDigitProduct(_)
\* The product of the decimal digits of n (the digit of 0 is 0).
TrueDigitProduct(n) ==
    IF n < 10 THEN n ELSE (n % 10) * TrueDigitProduct(n \div 10)

RECURSIVE TruePersistence(_)
\* The number of digit-product steps that take n below 10.
TruePersistence(n) ==
    IF n < 10 THEN 0 ELSE 1 + TruePersistence(TrueDigitProduct(n))

\* n is the smallest natural number whose persistence is k.
SmallestWith(n, k) ==
    /\ TruePersistence(n) = k
    /\ \A m \in 0 .. n - 1 : TruePersistence(m) # k

\* Every thread has left the parallel loop.
AllDone == \A t \in Threads : w[t].pc = "done"

(* ------------------------------------------------------------------ *)
(* C2                                                                   *)
(* ------------------------------------------------------------------ *)

\* C2: the number of every record line printed is the smallest natural
\* number whose multiplicative persistence is the persistence printed on
\* that line.
C2_SmallestWitness ==
    LET lines == RecordLines
    IN  \A i \in 1 .. Len(lines) :
           /\ WellFormed(lines[i])
           /\ SmallestWith(ParseU(LineDigits(lines[i])), LinePersistence(lines[i]))

(* ------------------------------------------------------------------ *)
(* C3                                                                   *)
(* ------------------------------------------------------------------ *)

\* The record lines the specification names, with the length of the number.
NamedRecords ==
    << [len |-> 2, line |-> <<"0", "3", ":", " ", " ", "3", "9">>],
       [len |-> 2, line |-> <<"0", "4", ":", " ", " ", "7", "7">>],
       [len |-> 3, line |-> <<"0", "5", ":", " ", " ", "6", "7", "9">>],
       [len |-> 4, line |-> <<"0", "6", ":", " ", " ", "6", "7", "8", "8">>],
       [len |-> 5, line |-> <<"0", "7", ":", " ", " ", "6", "8", "8", "8", "9">>],
       [len |-> 7, line |-> <<"0", "8", ":", " ", " ", "2", "6", "7", "7", "8", "8", "9">>] >>

\* Some number of at most len digits has persistence k.
ReachedWithin(k, len) == \E n \in 0 .. Pow(10, len) - 1 : TruePersistence(n) = k

\* C3: when the run has ended, stdout has a line for every persistence
\* above 2 that a number of at most MAX_DIGITS digits reaches, and it has
\* each of the lines "03:  39", "04:  77", "05:  679", "06:  6788",
\* "07:  68889", "08:  2677889" whose number has at most MAX_DIGITS digits.
C3_Complete ==
    AllDone =>
        LET lines == RecordLines
        IN  /\ \A e \in 1 .. Len(NamedRecords) :
                  NamedRecords[e].len <= MAX_DIGITS
                      => \E i \in 1 .. Len(lines) : lines[i] = NamedRecords[e].line
            /\ \A k \in 3 .. 11 :
                  ReachedWithin(k, MAX_DIGITS)
                      => \E i \in 1 .. Len(lines) : LinePersistence(lines[i]) = k

(* ------------------------------------------------------------------ *)
(* C4                                                                   *)
(* ------------------------------------------------------------------ *)

RECURSIVE SeqMax(_, _)
\* The largest of floor and the elements of a sequence of numbers.
SeqMax(q, floor) ==
    IF q = <<>> THEN floor
    ELSE LET m == SeqMax(Tail(q), floor) IN IF Head(q) > m THEN Head(q) ELSE m

\* The persistences of the complete lines of stdout, in order.
PrintedPersistences ==
    LET lines == RecordLines
    IN  [i \in 1 .. Len(lines) |-> LinePersistence(lines[i])]

\* The largest persistence printed so far, 2 when nothing has been printed.
LargestPrinted == SeqMax(PrintedPersistences, 2)

\* A thread has written the newline of its record line and not yet max.
RecordPending == \E t \in Threads : w[t].pc = "set_max"

\* C4 as claimed: in every reachable state max is at least 2, equals the
\* largest persistence printed so far (2 when nothing has been printed),
\* and no line with a persistence of 2 or less has been printed.
C4_MaxIsLargestPrinted ==
    /\ max >= 2
    /\ max = LargestPrinted
    /\ \A i \in 1 .. Len(PrintedPersistences) : PrintedPersistences[i] > 2

\* What holds in every state.  Outside the window between the newline of a
\* record line and the assignment to max that follows it, max is the largest
\* persistence printed; inside the window max is still the largest
\* persistence printed before that line, which the line exceeds.
C4_StateInvariant ==
    LET pers == PrintedPersistences
    IN  /\ max >= 2
        /\ \A i \in 1 .. Len(pers) : pers[i] > 2
        /\ IF RecordPending
           THEN /\ Len(pers) >= 1
                /\ max = SeqMax(SubSeq(pers, 1, Len(pers) - 1), 2)
                /\ pers[Len(pers)] > max
           ELSE max = SeqMax(pers, 2)

\* C4 (amended): max is at least 2 and never decreases from one state to
\* the next, no line with a persistence of 2 or less is printed, and max
\* equals the largest persistence printed so far except between the end of
\* a record line and the assignment to max under the same hold of the mutex.
C4_RecordInvariant == [](C4_StateInvariant) /\ [][max' >= max]_vars

\* Two lines are out and the thread that printed the second has not yet
\* written max.
C4_Witness == RecordPending /\ Len(RecordLines) >= 2 /\ max < LargestPrinted

(* ------------------------------------------------------------------ *)
(* C5                                                                   *)
(* ------------------------------------------------------------------ *)

\* The control points between a pthread_mutex_lock and its unlock.
InCritical(t) ==
    w[t].pc \in {"recheck", "unlock_continue", "print_head", "print_digits",
                 "set_max", "unlock", "progress_print", "progress_unlock"}

\* C5: a thread between lock and unlock (where max, the pieces of a record
\* line and a progress line are written) holds the mutex, so at most one
\* thread is there at a time; every line of stdout, the open one included,
\* is one record line, a line of stdout is open only while its writer holds
\* the mutex (so no progress line falls inside it), and every chunk of
\* stderr is one progress line.
C5_MutualExclusion ==
    /\ \A t \in Threads : InCritical(t) => mtx = t
    /\ \A t, u \in Threads : InCritical(t) /\ InCritical(u) => t = u
    /\ mtx # NoThread => InCritical(mtx)
    /\ LET lines == StartedLines
       IN  \A i \in 1 .. Len(lines) : WellFormed(lines[i])
    /\ OpenLine # <<>> => mtx # NoThread /\ w[mtx].pc = "print_digits"
    /\ \A i \in 1 .. Len(stderr) :
          \E b \in 0 .. digit_bucket_count(MAX_DIGITS) - 1 :
             stderr[i] = ProgressLine(bucket_digits(b, MAX_DIGITS))

\* A thread is in the middle of a record line while another waits for the
\* mutex.
C5_Witness ==
    \E t, u \in Threads :
        /\ w[t].pc = "print_digits" /\ w[t].i >= 1
        /\ w[u].pc \in {"lock", "progress_lock"}

(* ------------------------------------------------------------------ *)
(* C6                                                                   *)
(* ------------------------------------------------------------------ *)

RECURSIVE BestFrom(_, _, _)
\* The largest of best and 1 + mpz_persistence(value) over the candidates of
\* one iteration from pos on.
BestFrom(digits, pos, best) ==
    IF pos = EndPos THEN best
    ELSE LET p == CandidatePersistence(digits, pos)
         IN  BestFrom(digits, NextPos(digits, pos), IF p > best THEN p ELSE best)

RECURSIVE BestUpTo(_, _)
\* The same over the iterations 2 .. M, starting from floor.
BestUpTo(M, floor) ==
    IF M < 2 THEN floor
    ELSE BestFrom(M, EnterPrefix(M, 0), BestUpTo(M - 1, floor))

\* C6: a candidate is passed over only when its persistence does not exceed
\* max, and when the run has ended max is the largest of 2 and
\* 1 + mpz_persistence(value) over all candidates of the iterations
\* 2 .. MAX_DIGITS, and the last line printed carries it.
C6_NoLostRecord ==
    /\ \A t \in Threads :
          w[t].pc \in {"recheck", "unlock_continue"}
              => w[t].persistence = CandidatePersistence(w[t].digits, w[t].pos)
    /\ \A t \in Threads :
          w[t].pc = "unlock_continue" => w[t].persistence <= max
    /\ AllDone =>
          LET pers == PrintedPersistences
          IN  /\ max = BestUpTo(MAX_DIGITS, 2)
              /\ max > 2 => Len(pers) >= 1 /\ pers[Len(pers)] = max
              /\ max = 2 => Len(pers) = 0

\* A thread passed the comparison outside the mutex although its candidate
\* does not exceed max: it is about to take the mutex for nothing.
C6_Witness ==
    \E t \in Threads :
        /\ w[t].pc = "lock"
        /\ w[t].persistence <= max
        /\ mtx = NoThread
        /\ Len(RecordLines) >= 2

(* ------------------------------------------------------------------ *)
(* C7                                                                   *)
(* ------------------------------------------------------------------ *)

\* The iterations 2 .. MAX_DIGITS of bucket b.
BucketDigits(b) == {d \in 2 .. MAX_DIGITS : (d - 1) \div 100 = b}

\* The buckets that contain an iteration.
UsedBuckets == {b \in 0 .. MAX_DIGITS \div 100 : BucketDigits(b) # {}}

\* "Finished searching at <min((b+1)*100, MAX_DIGITS)> digits"
ExpectedProgress(b) ==
    <<"Finished searching at ">>
        \o FmtU(IF (b + 1) * 100 < MAX_DIGITS THEN (b + 1) * 100 ELSE MAX_DIGITS)
        \o <<" digits", "\n">>

\* How many chunks of stderr are the progress line of bucket b.
ProgressCount(b) == Cardinality({i \in 1 .. Len(stderr) : stderr[i] = ExpectedProgress(b)})

\* The thread is past a decrement that returned 0.
Reporting(t) == w[t].pc \in {"progress_lock", "progress_print", "progress_unlock"}

\* C7: every chunk of stderr is the progress line of a bucket that contains
\* an iteration, no bucket has more than one, the thread that reports a
\* bucket is the one whose decrement left its counter at 0, and when the run
\* has ended every bucket that contains an iteration has exactly one line,
\* reporting min((bucket+1)*100, MAX_DIGITS); with MAX_DIGITS < 100 that is
\* the single line "Finished searching at MAX_DIGITS digits".
C7_OneProgressLinePerBucket ==
    /\ \A i \in 1 .. Len(stderr) : \E b \in UsedBuckets : stderr[i] = ExpectedProgress(b)
    /\ \A b \in UsedBuckets : ProgressCount(b) <= 1
    /\ \A t \in Threads :
          Reporting(t) =>
              /\ digits_left[(w[t].digits - 1) \div 100] = 0
              /\ \A u \in Threads :
                    Reporting(u) /\ (w[u].digits - 1) \div 100 = (w[t].digits - 1) \div 100
                        => u = t
              /\ ProgressCount((w[t].digits - 1) \div 100)
                    = IF w[t].pc = "progress_unlock" THEN 1 ELSE 0
    /\ AllDone =>
          /\ \A b \in UsedBuckets : ProgressCount(b) = 1
          /\ Len(stderr) = Cardinality(UsedBuckets)
          /\ MAX_DIGITS < 100 =>
                stderr = << <<"Finished searching at ">> \o FmtU(MAX_DIGITS)
                              \o <<" digits", "\n">> >>

\* A run over two buckets has ended with the line of the second bucket
\* printed before the line of the first.
C7_Witness ==
    /\ AllDone
    /\ MAX_DIGITS > 100
    /\ Len(stderr) = 2
    /\ stderr[1] = ExpectedProgress(1)
    /\ stderr[2] = ExpectedProgress(0)

(* ------------------------------------------------------------------ *)
(* C8                                                                   *)
(* ------------------------------------------------------------------ *)

\* C8: mpz_persistence(n) is the number of digit-product steps that take n
\* below 10: it is 0 for n in 0 .. 9, and for n >= 10 it is
\* 1 + mpz_persistence(mul_digits(n)).
C8_PersistenceContract ==
    eval_fn = "mpz_persistence" =>
        /\ eval_out = TruePersistence(eval_in)
        /\ eval_in <= 9 => eval_out = 0
        /\ eval_in >= 10 => eval_out = 1 + mpz_persistence(mul_digits(eval_in))

(* ------------------------------------------------------------------ *)
(* C9                                                                   *)
(* ------------------------------------------------------------------ *)

RECURSIVE CountDigit(_, _)
\* How many decimal digits of n are d (0 has the one digit 0).
CountDigit(n, d) ==
    IF n < 10 THEN (IF n = d THEN 1 ELSE 0)
    ELSE (IF n % 10 = d THEN 1 ELSE 0) + CountDigit(n \div 10, d)

\* 2^h2' * 3^h3' * 5^h5 * 7^h7 with the regrouped counts of the digits of n
RegroupedProduct(n) ==
    LET h2 == CountDigit(n, 2) + 2 * CountDigit(n, 4) + CountDigit(n, 6)
                  + 3 * CountDigit(n, 8)
        h3 == CountDigit(n, 3) + CountDigit(n, 6) + 2 * CountDigit(n, 9)
    IN  Pow(2, h2) * Pow(3, h3) * Pow(5, CountDigit(n, 5)) * Pow(7, CountDigit(n, 7))

\* C9: mul_digits(n) is the product of the decimal digits of n, for every
\* n >= 0: 0 when a digit of n is 0 (n = 0 included), else the product of
\* the prime powers of the regrouped digit counts.
C9_DigitProduct ==
    eval_fn = "mul_digits" =>
        /\ eval_out = TrueDigitProduct(eval_in)
        /\ CountDigit(eval_in, 0) > 0 => eval_out = 0
        /\ CountDigit(eval_in, 0) = 0 => eval_out = RegroupedProduct(eval_in)

(* ------------------------------------------------------------------ *)
(* C10                                                                  *)
(* ------------------------------------------------------------------ *)

\* C10: on every record line "NN:  S", NN is the multiplicative
\* persistence of the number S.
C10_PrintedIsTrue ==
    LET lines == RecordLines
    IN  \A i \in 1 .. Len(lines) :
           /\ WellFormed(lines[i])
           /\ LinePersistence(lines[i]) = TruePersistence(ParseU(LineDigits(lines[i])))

(* ------------------------------------------------------------------ *)
(* C11                                                                  *)
(* ------------------------------------------------------------------ *)

\* The control points of the loop over the prefixes (lines 147-234).
EnumerationPcs ==
    {"eval", "lock", "recheck", "unlock_continue", "print_head",
     "print_digits", "set_max", "unlock"}

\* The iteration d has not completed its enumeration: it has not been
\* started, or its thread is still inside the loop over the prefixes.
Enumerating(d) ==
    \/ d \in unstarted
    \/ \E t \in Threads : w[t].digits = d /\ w[t].pc \in EnumerationPcs

\* The iteration d has completed its enumeration and not yet executed the
\* decrement of line 240.
BeforeDecrement(d) == \E t \in Threads : w[t].digits = d /\ w[t].pc = "bucket"

\* The iterations that have not completed their enumeration.
EnumeratingSet == {d \in 2 .. MAX_DIGITS : Enumerating(d)}

\* The iterations between the end of their enumeration and their decrement.
BeforeDecrementSet == {d \in 2 .. MAX_DIGITS : BeforeDecrement(d)}

\* The iterations of S that belong to bucket k.
InBucket(k, S) == {d \in S : (d - 1) \div 100 = k}

\* The buckets digits_left[] has a counter for.
Buckets == 0 .. MAX_DIGITS \div 100

\* C11 as claimed: each counter digits_left[k] always equals the number of
\* iterations D in 2 .. MAX_DIGITS with (D - 1) div 100 = k that have not
\* yet completed their enumeration.
C11_CounterIsEnumerating ==
    LET enum == EnumeratingSet
    IN  /\ DOMAIN digits_left = Buckets
        /\ \A k \in Buckets : digits_left[k] = Cardinality(InBucket(k, enum))

\* C11 (amended): each counter digits_left[k] always equals the number of
\* iterations D in 2 .. MAX_DIGITS with (D - 1) div 100 = k that have not
\* yet executed their decrement, which is the number that have not completed
\* their enumeration plus the number between the end of their enumeration
\* and the decrement; it is never below 0, and while it is 0 every
\* iteration of the bucket has completed its enumeration.
C11_CounterInvariant ==
    LET enum == EnumeratingSet
        pend == BeforeDecrementSet
    IN  /\ DOMAIN digits_left = Buckets
        /\ enum \cap pend = {}
        /\ \A k \in Buckets :
              /\ digits_left[k] = Cardinality(InBucket(k, enum))
                                    + Cardinality(InBucket(k, pend))
              /\ digits_left[k] >= 0
              /\ digits_left[k] = 0 <=> InBucket(k, enum \cup pend) = {}

\* The counter of the second bucket is down to 0 while the first bucket
\* still counts an iteration that is past its enumeration.
C11_Witness ==
    /\ MAX_DIGITS > 100
    /\ digits_left[1] = 0
    /\ digits_left[0] = 1
    /\ InBucket(0, EnumeratingSet) = {}
    /\ InBucket(0, BeforeDecrementSet) # {}

(* ------------------------------------------------------------------ *)
(* C12                                                                  *)
(* ------------------------------------------------------------------ *)

\* The decimal string of a canonical form: the text, then the runs of 5s,
\* 7s, 8s and 9s.
FormString(text, a, b, c, d) ==
    text \o [i \in 1 .. a |-> "5"] \o [i \in 1 .. b |-> "7"]
         \o [i \in 1 .. c |-> "8"] \o [i \in 1 .. d |-> "9"]

\* The string of the k-th candidate evaluated, from its prefix and counters.
StringOf(k) ==
    LET e == evaluated[k]
    IN  FormString(prefixes[e.p].str, e.num5s, e.num7s, e.num8s, e.num9s)

\* The thread has left the loop of line 142.
SingleDone == w[Main].pc = "done"

\* C12: the strings of the canonical forms enumerated, over all iterations,
\* prefixes, both families and all loop rounds, are pairwise distinct.
\* (As many different strings as forms: no string is produced twice.)
C12_PairwiseDistinct ==
    Cardinality({StringOf(k) : k \in 1 .. Len(evaluated)}) = Len(evaluated)

\* The run over 2 .. MAX_DIGITS has ended, with forms of both families under
\* one prefix, forms of two prefixes and forms of two iterations evaluated.
C12_Witness ==
    /\ SingleDone
    /\ MAX_DIGITS >= 3
    /\ \E i, j \in 1 .. Len(evaluated) :
          /\ evaluated[i].digits = evaluated[j].digits
          /\ evaluated[i].p = evaluated[j].p
          /\ evaluated[i].num5s > 0
          /\ evaluated[j].num5s = 0
    /\ \E i, j \in 1 .. Len(evaluated) : evaluated[i].p # evaluated[j].p
    /\ \E i, j \in 1 .. Len(evaluated) : evaluated[i].digits # evaluated[j].digits

(* ------------------------------------------------------------------ *)
(* C13                                                                  *)
(* ------------------------------------------------------------------ *)

\* Family B for R remaining digits: counts <<5s, 7s, 8s, 9s>> with no 5.
FamilyB(R) ==
    {<<0, b, c, d>> : <<b, c, d>> \in
        {x \in (0 .. R) \X (0 .. R) \X (0 .. R) : x[1] + x[2] + x[3] = R}}

\* Family A for R remaining digits: at least one 5 and no 8.
FamilyA(R) ==
    {<<x[1], x[2], 0, x[3]>> : x \in
        {y \in (1 .. R) \X (0 .. R) \X (0 .. R) : y[1] + y[2] + y[3] = R}}

\* The tuples <<prefix, counts>> to visit for D digits.
ExpectedTuples(D) ==
    UNION {
        LET R == D - PrefixTable[p + 1].digits
        IN  {<<p, t>> : t \in FamilyB(R) \cup
                 (IF PrefixTable[p + 1].prod % 2 = 1 THEN FamilyA(R) ELSE {})}
        : p \in {q \in 0 .. 5 : PrefixTable[q + 1].digits <= D} }

\* The tuple of the k-th candidate evaluated.
TupleOf(k) ==
    LET e == evaluated[k]
    IN  <<e.p, <<e.num5s, e.num7s, e.num8s, e.num9s>>>>

\* The places in `evaluated` of the candidates of D digits.
VisitsOf(D) == {k \in 1 .. Len(evaluated) : evaluated[k].digits = D}

\* The loop over the prefixes of iteration D has been left.
EnumerationComplete(D) ==
    /\ D \in 2 .. MAX_DIGITS
    /\ D \notin unstarted
    /\ ~(w[Main].digits = D /\ w[Main].pc = "eval")

\* C13: for every D and every prefix with at most D digits, with
\* R = D - digits of the prefix, the enumeration of D visits exactly once
\* every tuple of Family B (7s, 8s, 9s adding up to R, no 5) and, only when
\* the prefix product is odd, exactly once every tuple of Family A (at least
\* one 5, 7s, 9s adding up to R, no 8), and no other tuple; no tuple of a
\* prefix with more than D digits is visited.
C13_ExactlyTheTuples ==
    \A D \in 2 .. MAX_DIGITS :
        LET visits == VisitsOf(D)
            tuples == {TupleOf(k) : k \in visits}
        IN  /\ Cardinality(tuples) = Cardinality(visits)
            /\ tuples \subseteq ExpectedTuples(D)
            /\ \A k \in visits : PrefixTable[evaluated[k].p + 1].digits <= D
            /\ EnumerationComplete(D) => tuples = ExpectedTuples(D)

\* The enumeration of an iteration of at least 3 digits is complete; it has
\* visited tuples of Family A under an odd prefix and none under an even one.
C13_Witness ==
    \E D \in 3 .. MAX_DIGITS :
        /\ EnumerationComplete(D)
        /\ w[Main].digits = D
        /\ \E k \in VisitsOf(D) : evaluated[k].num5s >= 1 /\ evaluated[k].p = 2
        /\ \E k \in VisitsOf(D) : evaluated[k].num8s >= 1 /\ evaluated[k].p = 0
        /\ \A k \in VisitsOf(D) : evaluated[k].num5s >= 1 => evaluated[k].p \in {2, 5}

(* ------------------------------------------------------------------ *)
(* C14                                                                  *)
(* ------------------------------------------------------------------ *)

RECURSIVE StringDigitProduct(_)
\* The product of the digits of a decimal string (1 for the empty string).
StringDigitProduct(str) ==
    IF str = <<>> THEN 1
    ELSE DigitVal(Head(str)) * StringDigitProduct(Tail(str))

\* C14: for every candidate evaluated, the value handed to mpz_persistence
\* is the product of the decimal digits of the string the printfs write for
\* it, that string is the prefix text followed by the runs of 5s, 7s, 8s and
\* 9s in that order and has exactly `digits` digits, a record line carries
\* that string, and the prod field of each of the six prefixes is the digit
\* product of its text (1 for the empty prefix).
C14_ValueIsDigitProduct ==
    /\ \A k \in 1 .. Len(evaluated) :
          LET e == evaluated[k]
          IN  /\ e.str = StringOf(k)
              /\ e.num = StringDigitProduct(e.str)
              /\ Len(e.str) = e.digits
    /\ \A i \in 1 .. Len(RecordLines) :
          \E k \in 1 .. Len(evaluated) :
             /\ evaluated[k].record
             /\ LineDigits(RecordLines[i]) = evaluated[k].str
             /\ LinePersistence(RecordLines[i]) = evaluated[k].persistence
    /\ \A p \in 0 .. 5 :
          /\ PrefixTable[p + 1].prod = StringDigitProduct(PrefixTable[p + 1].str)
          /\ PrefixTable[p + 1].digits = Len(PrefixTable[p + 1].str)
    /\ PrefixTable[6].str = <<>> /\ PrefixTable[6].prod = 1

\* A candidate of the two-digit prefix with 7s, 8s and 9s behind it and a
\* candidate of an odd prefix with 5s, 7s and 9s have been evaluated, and a
\* record line has been printed.
C14_Witness ==
    /\ \E k \in 1 .. Len(evaluated) :
          LET e == evaluated[k]
          IN  e.p = 0 /\ e.num7s >= 1 /\ e.num8s >= 1 /\ e.num9s >= 1
    /\ \E k \in 1 .. Len(evaluated) :
          LET e == evaluated[k]
          IN  e.p = 2 /\ e.num5s >= 1 /\ e.num7s >= 1 /\ e.num9s >= 1
    /\ Len(RecordLines) >= 1

(* ------------------------------------------------------------------ *)
(* C15                                                                  *)
(* ------------------------------------------------------------------ *)

\* All counts <<5s, 7s, 8s, 9s>> that add up to R.
AllCounts(R) ==
    {x \in (0 .. R) \X (0 .. R) \X (0 .. R) \X (0 .. R) :
        x[1] + x[2] + x[3] + x[4] = R}

\* Every canonical form of D digits: a prefix of at most D digits followed
\* by 5s, 7s, 8s and 9s.
CanonicalForms(D) ==
    UNION { {<<p, t>> : t \in AllCounts(D - PrefixTable[p + 1].digits)}
            : p \in {q \in 0 .. 5 : PrefixTable[q + 1].digits <= D} }

\* The canonical forms of D digits the enumeration has not visited.
LeftOut(D) == CanonicalForms(D) \ {TupleOf(k) : k \in VisitsOf(D)}

\* prefix.product * 5^a * 7^b * 8^c * 9^d
FormProduct(f) ==
    PrefixTable[f[1] + 1].prod * Pow(5, f[2][1]) * Pow(7, f[2][2])
        * Pow(8, f[2][3]) * Pow(9, f[2][4])

\* The number a canonical form denotes.
FormNumber(f) ==
    ParseU(FormString(PrefixTable[f[1] + 1].str, f[2][1], f[2][2], f[2][3], f[2][4]))

\* a >= 1 and either c >= 1 or an even prefix product
FiveWithEven(f) ==
    /\ f[2][1] >= 1
    /\ (f[2][3] >= 1 \/ PrefixTable[f[1] + 1].prod % 2 = 0)

\* C15: the canonical forms an iteration leaves out are exactly those with
\* a 5 and either an 8 or an even prefix product; each has a digit product
\* divisible by 10 and a persistence of at most 2, by the definition and as
\* the program would compute it (1 + mpz_persistence of the product), so
\* none of them exceeds the initial max of 2.
C15_LeftOutAtMostTwo ==
    \A D \in 2 .. MAX_DIGITS :
        EnumerationComplete(D) =>
            /\ LeftOut(D) = {f \in CanonicalForms(D) : FiveWithEven(f)}
            /\ \A f \in LeftOut(D) :
                  /\ TrueDigitProduct(FormNumber(f)) = FormProduct(f)
                  /\ FormProduct(f) % 10 = 0
                  /\ TruePersistence(FormNumber(f)) <= 2
                  /\ 1 + mpz_persistence(FormProduct(f)) <= 2

\* The enumeration of an iteration is complete and has left out a form of
\* an odd prefix with a 5 and an 8, a form of an even prefix with a 5 and no
\* 8, and the form 25 whose product is 10 itself.
C15_Witness ==
    \E D \in 3 .. MAX_DIGITS :
        /\ EnumerationComplete(D)
        /\ w[Main].digits = D
        /\ \E f \in LeftOut(D) : f[1] = 5 /\ f[2][1] >= 1 /\ f[2][3] >= 1
        /\ \E f \in LeftOut(D) : f[1] = 1 /\ f[2][1] >= 1 /\ f[2][3] = 0
        /\ <<1, <<1, 0, 0, 0>>>> \in LeftOut(2)

(* ------------------------------------------------------------------ *)
(* C16                                                                  *)
(* ------------------------------------------------------------------ *)

\* The run has ended: every thread has left the loop, every iteration has
\* been handed out and counted, and the mutex is free.
Finished ==
    /\ AllDone
    /\ unstarted = {}
    /\ mtx = NoThread
    /\ \A k \in DOMAIN digits_left : digits_left[k] = 0

RECURSIVE ChainEnds(_)
\* Every digit-product step of the loop of mpz_persistence started on n
\* yields a smaller number, down to a number the loop stops at.
ChainEnds(n) ==
    IF PersistenceContinues(n)
    THEN \A out \in {mul_digits(n)} : out < n /\ ChainEnds(out)
    ELSE TRUE

\* The threads waiting at a pthread_mutex_lock.
Waiting(t) == w[t].pc \in {"lock", "progress_lock"}

\* Every iteration is unstarted, held by exactly one thread, or over; an
\* evaluation about to run ends; the holder of the mutex can take a step;
\* and some thread can take a step unless all have left the loop.
C16_Safe ==
    /\ \A t, u \in Threads : w[t].digits # 0 /\ w[t].digits = w[u].digits => t = u
    /\ \A t \in Threads : w[t].digits # 0 => w[t].digits \notin unstarted
    /\ \A t \in Threads :
          w[t].pc = "eval" => ChainEnds(FirstStep(w[t].digits, w[t].pos))
    /\ mtx # NoThread => InCritical(mtx) /\ ENABLED ThreadStep(mtx)
    /\ ~AllDone => ENABLED Next

\* C16: under fair scheduling every run ends with every iteration of
\* 2 .. MAX_DIGITS handed to exactly one thread and enumerated to its end;
\* each evaluation ends after finitely many digit-product steps; a thread
\* that takes the mutex releases it, on the failed re-check path as on the
\* others; a thread that waits for the mutex gets it; and no state short of
\* the end is a deadlock.
C16_Termination ==
    /\ []C16_Safe
    /\ <>[]Finished
    /\ \A t \in Threads : (mtx = t) ~> (mtx # t)
    /\ \A t \in Threads : Waiting(t) ~> (mtx = t)

\* The run has ended with two record lines and the progress line printed;
\* a comparison outside the mutex had passed on a value of max that was
\* already two records old.
C16_Witness ==
    /\ Finished
    /\ Len(RecordLines) >= 2
    /\ Len(stderr) = 1
    /\ Cardinality(max_held) >= 3

(* ------------------------------------------------------------------ *)
(* C17                                                                  *)
(* ------------------------------------------------------------------ *)

\* The progress line of bucket b is on stderr.
ProgressEmitted(b) == \E i \in 1 .. Len(stderr) : stderr[i] = ExpectedProgress(b)

\* Thread t writes to stdout in this step.
WritesRecord(t) ==
    /\ w[t].pc \in {"print_head", "print_digits"}
    /\ w'[t] # w[t]
    /\ stdout' # stdout

\* Once the progress line of a bucket is out, and already when a thread is
\* about to write it, no iteration of the bucket is unstarted or inside its
\* enumeration.
C17_BucketFinished ==
    /\ \A b \in Buckets : ProgressEmitted(b) => InBucket(b, EnumeratingSet) = {}
    /\ \A t \in Threads :
          Reporting(t) => InBucket((w[t].digits - 1) \div 100, EnumeratingSet) = {}

\* C17: when the progress line of a bucket is emitted every iteration of
\* the bucket has finished its whole enumeration, and from then on no
\* thread running an iteration of that bucket writes to stdout: every
\* record line that comes from the bucket was printed before the progress
\* line, whatever the interleaving.
C17_ProgressAfterRecords ==
    /\ []C17_BucketFinished
    /\ [][\A t \in Threads :
             WritesRecord(t) => ~ProgressEmitted((w[t].digits - 1) \div 100)]_vars
    /\ [][(\E b \in Buckets : ProgressEmitted(b) /\ BucketDigits(b) = 2 .. MAX_DIGITS)
             => stdout' = stdout]_vars

\* The progress line has just been written by a thread that printed no
\* record of its own iteration, after two record lines of other iterations.
C17_Witness ==
    /\ Len(stderr) = 1
    /\ Len(RecordLines) >= 2
    /\ \E t \in Threads :
          /\ w[t].pc = "progress_unlock"
          /\ \A i \in 1 .. Len(RecordLines) :
                Len(LineDigits(RecordLines[i])) # w[t].digits

(* ------------------------------------------------------------------ *)
(* C18                                                                  *)
(* ------------------------------------------------------------------ *)

\* The number denoted by the string of the k-th candidate evaluated.
NumberOf(k) == ParseU(evaluated[k].str)

\* The candidates taken as records are the smallest of their kind: no form
\* enumerated in the iterations completed so far is numerically smaller than
\* a record of such an iteration and has at least its persistence.
RecordsAreSmallest ==
    LET n   == Len(evaluated)
        num == [k \in 1 .. n |-> NumberOf(k)]
    IN  \A k \in 1 .. n :
           evaluated[k].record /\ EnumerationComplete(evaluated[k].digits) =>
               \A j \in 1 .. n :
                  num[j] < num[k] => evaluated[j].persistence < evaluated[k].persistence

====
